---- MODULE Spec2Model ----
(***************************************************************************)
(* cloudinit/distros/helpers.py: HostsConf and ResolvConf, the line-record *)
(* editors of /etc/hosts and /etc/resolv.conf.                             *)
(*                                                                         *)
(* A Python string is a sequence of symbols.  A symbol is a whitespace     *)
(* character (" ", "\t"), a comment character ("#", ";"), the newline, or  *)
(* a word: a run of non-blank, non-comment characters that the model never *)
(* looks inside ("nameserver", "a", "ip1", ...).  Width gives the number   *)
(* of characters a symbol stands for, so len() is the sum of the widths.   *)
(***************************************************************************)
EXTENDS Integers, Sequences, FiniteSets, TLC

VARIABLES text, parsed, contents, last, nops

vars == <<text, parsed, contents, last, nops>>

(* ------------------------------ bounds -------------------------------- *)

\* Lines of a resolv.conf text the mutation runs start from.
MaxLines == 3
\* Symbols of a resolv.conf text the parser runs start from.
MaxTextLen == 5
\* Lines of a hosts text.
MaxHostsLines == 3
\* Calls made on one document.
MaxOps == 2
\* Characters of the long search domains "X" and "Z".
LongWidth == 130

(* ------------------------- program constants -------------------------- *)

MaxNameservers == 3
MaxSearchDomains == 6
MaxSearchChars == 256

(* ------------------------------ strings ------------------------------- *)

Whitespace == {" ", "\t"}

Width(c) == IF c \in {"X", "Z"} THEN LongWidth
            ELSE IF c = "%s" THEN 2
            ELSE 1

\* len(s)
RECURSIVE len(_)
len(s) == IF s = <<>> THEN 0 ELSE Width(Head(s)) + len(Tail(s))

\* s.lstrip(), s.rstrip(), s.strip()
RECURSIVE lstrip(_)
lstrip(s) == IF s = <<>> THEN <<>>
             ELSE IF Head(s) \in Whitespace THEN lstrip(Tail(s))
             ELSE s

RECURSIVE rstrip(_)
rstrip(s) == IF s = <<>> THEN <<>>
             ELSE IF s[Len(s)] \in Whitespace THEN rstrip(SubSeq(s, 1, Len(s) - 1))
             ELSE s

strip(s) == rstrip(lstrip(s))

\* text.find(c): the 0-based index of the first c, or -1
find(s, c) == IF \E i \in 1..Len(s) : s[i] = c
              THEN (CHOOSE i \in 1..Len(s) :
                       s[i] = c /\ \A j \in 1..(i - 1) : s[j] # c) - 1
              ELSE -1

\* the 1-based position of the first whitespace of s, Len(s) + 1 if none
TokenEnd(s) == IF \E i \in 1..Len(s) : s[i] \in Whitespace
               THEN CHOOSE i \in 1..Len(s) :
                       s[i] \in Whitespace /\ \A j \in 1..(i - 1) : s[j] \notin Whitespace
               ELSE Len(s) + 1

\* s.split(None)
RECURSIVE split(_)
split(s) == LET t == lstrip(s)
            IN IF t = <<>> THEN <<>>
               ELSE <<SubSeq(t, 1, TokenEnd(t) - 1)>>
                       \o split(SubSeq(t, TokenEnd(t), Len(t)))

\* s.split(None, 1): the remainder keeps its trailing whitespace
split1(s) == LET t == lstrip(s)
                 rest == lstrip(SubSeq(t, TokenEnd(t), Len(t)))
             IN IF t = <<>> THEN <<>>
                ELSE IF rest = <<>> THEN <<SubSeq(t, 1, TokenEnd(t) - 1)>>
                ELSE <<SubSeq(t, 1, TokenEnd(t) - 1), rest>>

\* s.splitlines()
RECURSIVE splitlines(_)
splitlines(s) == IF s = <<>> THEN <<>>
                 ELSE IF find(s, "\n") = -1 THEN <<s>>
                 ELSE <<SubSeq(s, 1, find(s, "\n"))>>
                         \o splitlines(SubSeq(s, find(s, "\n") + 2, Len(s)))

\* sep.join(xs)
RECURSIVE join(_, _)
join(sep, xs) == IF xs = <<>> THEN <<>>
                 ELSE IF Len(xs) = 1 THEN xs[1]
                 ELSE xs[1] \o sep \o join(sep, Tail(xs))

\* the elements of xs as a set
Range(xs) == {xs[i] : i \in 1..Len(xs)}

\* util.uniq_list(in_list): the first occurrence of every value, in order
RECURSIVE uniq_from(_, _)
uniq_from(in_list, out_list) ==
    IF in_list = <<>> THEN out_list
    ELSE IF Head(in_list) \in Range(out_list) THEN uniq_from(Tail(in_list), out_list)
    ELSE uniq_from(Tail(in_list), Append(out_list, Head(in_list)))

uniq_list(in_list) == uniq_from(in_list, <<>>)

\* _chop_comment(text, comment_chars)
chop_comment(s, comment_chars) ==
    LET comment_locations ==
            {find(s, comment_chars[k]) : k \in 1..Len(comment_chars)} \ {-1}
        min_comment == CHOOSE m \in comment_locations :
                          \A n \in comment_locations : m <= n
    IN IF comment_locations = {} THEN <<s, <<>>>>
       ELSE <<SubSeq(s, 1, min_comment), SubSeq(s, min_comment + 1, Len(s))>>

(* ------------------------------ errors -------------------------------- *)

NoError == [kind |-> "none", msg |-> "", line |-> 0, opt |-> <<>>]

\* a slip of BadLineError: the 0-based index i for the line number
BadLineError_index(n) == [kind |-> "IOError",
                          msg |-> "Incorrectly formatted resolv.conf line",
                          line |-> n - 1, opt |-> <<>>]

\* IOError("Incorrectly formatted resolv.conf line %s" % (i + 1))
BadLineError(n) == [kind |-> "IOError", msg |-> "Incorrectly formatted resolv.conf line",
                    line |-> n, opt |-> <<>>]

\* IOError("Unexpected resolv.conf option %s" % (cfg_opt)): no line number
BadOptionError(cfg_opt) == [kind |-> "IOError", msg |-> "Unexpected resolv.conf option",
                            line |-> 0, opt |-> cfg_opt]

LimitError(what) == [kind |-> "ValueError", msg |-> what, line |-> 0, opt |-> <<>>]

(* ----------------------------- ResolvConf ----------------------------- *)

Directives == {<<"nameserver">>, <<"domain">>, <<"search">>, <<"sortlist">>, <<"options">>}

\* ResolvConf._parse, from line i + 1 on, with the entries made so far
RECURSIVE Resolv_parse_from(_, _, _)
Resolv_parse_from(lines, i, entries) ==
    IF i >= Len(lines) THEN [err |-> NoError, entries |-> entries]
    ELSE LET line == lines[i + 1]
             sline == strip(line)
             head == chop_comment(line, <<";", "#">>)[1]
             tail == chop_comment(line, <<";", "#">>)[2]
             kv == split1(head)
         IN IF sline = <<>>
            THEN Resolv_parse_from(lines, i + 1, Append(entries, <<"blank", <<line>>>>))
            ELSE IF strip(head) = <<>>
            THEN Resolv_parse_from(lines, i + 1, Append(entries, <<"all_comment", <<line>>>>))
            ELSE IF Len(kv) # 2
            THEN [err |-> BadLineError(i + 1), entries |-> <<>>]
            ELSE IF kv[1] \notin Directives
            THEN [err |-> BadOptionError(kv[1]), entries |-> <<>>]
            ELSE Resolv_parse_from(lines, i + 1,
                                   Append(entries, <<"option", <<kv[1], kv[2], tail>>>>))

Resolv_parse(s) == Resolv_parse_from(splitlines(s), 0, <<>>)

\* ResolvConf._retr_option(opt_name), on the parsed contents c
RECURSIVE retr_option(_, _)
retr_option(c, opt_name) ==
    IF c = <<>> THEN <<>>
    ELSE IF Head(c)[1] = "option" /\ Head(c)[2][1] = opt_name
    THEN <<Head(c)[2][2]>> \o retr_option(Tail(c), opt_name)
    ELSE retr_option(Tail(c), opt_name)

\* a slip of remove_opt: the option's name is not compared
remove_opt_any_option(item, opt_name) == item[1] = "option"

\* remove_opt(item) of ResolvConf._remove_option
remove_opt(item, opt_name) == item[1] = "option" /\ item[2][1] = opt_name

\* ResolvConf._remove_option(opt_name): the new contents
RECURSIVE remove_option(_, _)
remove_option(c, opt_name) ==
    IF c = <<>> THEN <<>>
    ELSE IF remove_opt(Head(c), opt_name) THEN remove_option(Tail(c), opt_name)
    ELSE <<Head(c)>> \o remove_option(Tail(c), opt_name)

\* the flattening loop of ResolvConf.search_domains
RECURSIVE flatten_sds(_)
flatten_sds(current_sds) ==
    IF current_sds = <<>> THEN <<>>
    ELSE split(Head(current_sds)) \o flatten_sds(Tail(current_sds))

\* ResolvConf.search_domains, on the parsed contents c
search_domains(c) == flatten_sds(retr_option(c, <<"search">>))

\* ResolvConf.nameservers, on the parsed contents c
nameservers(c) == retr_option(c, <<"nameserver">>)

\* the "for n in new_ns: self._contents.append(...)" loop of add_nameserver
nameserver_lines(new_ns) ==
    [i \in 1..Len(new_ns) |-> <<"option", <<<<"nameserver">>, new_ns[i], <<>>>>>>]

\* ResolvConf.add_nameserver(ns) on the parsed contents c: the contents it
\* leaves, the list it returns and the error it raises
add_nameserver(c, ns) ==
    LET current_ns == retr_option(c, <<"nameserver">>)
        new_ns == uniq_list(Append(current_ns, ns))
    IN IF Len(new_ns) = Len(current_ns)
       THEN [contents |-> c, ret |-> current_ns, err |-> NoError]
       ELSE IF Len(current_ns) >= MaxNameservers
       THEN [contents |-> c, ret |-> <<>>, err |-> LimitError("3 maximum name servers")]
       ELSE [contents |-> remove_option(c, <<"nameserver">>) \o nameserver_lines(new_ns),
             ret |-> new_ns, err |-> NoError]

\* ResolvConf.add_search_domain(search_domain) on the parsed contents c
add_search_domain(c, search_domain) ==
    LET flat_sds == search_domains(c)
        new_sds == uniq_list(Append(flat_sds, search_domain))
        s_list == join(<<" ">>, new_sds)
    IN IF Len(flat_sds) = Len(new_sds)
       THEN [contents |-> c, ret |-> new_sds, err |-> NoError]
       ELSE IF Len(flat_sds) >= MaxSearchDomains
       THEN [contents |-> c, ret |-> <<>>, err |-> LimitError("6 maximum search domains")]
       ELSE IF len(s_list) > MaxSearchChars
       THEN [contents |-> c, ret |-> <<>>,
             err |-> LimitError("256 maximum search list character limit")]
       ELSE [contents |-> Append(remove_option(c, <<"search">>),
                                 <<"option", <<<<"search">>, s_list, <<>>>>>>),
             ret |-> flat_sds, err |-> NoError]

\* the local_domain setter on the parsed contents c
set_local_domain(c, domain) ==
    [contents |-> Append(remove_option(c, <<"domain">>),
                         <<"option", <<<<"domain">>, domain, <<>>>>>>),
     ret |-> <<>>, err |-> NoError]

\* ResolvConf.__str__, on the parsed contents c
RECURSIVE Resolv_str(_)
Resolv_str(c) ==
    IF c = <<>> THEN <<>>
    ELSE LET line_type == Head(c)[1]
             components == Head(c)[2]
         IN (IF line_type = "blank" THEN <<"\n">>
             ELSE IF line_type = "all_comment" THEN components[1] \o <<"\n">>
             ELSE components[1] \o <<" ">> \o components[2] \o components[3] \o <<"\n">>)
            \o Resolv_str(Tail(c))

\* ResolvConf.parse(): parses self._text unless self._contents is set
Resolv_parsed == IF parsed THEN [err |-> NoError, entries |-> contents]
                 ELSE Resolv_parse(text)

\* one call on the document: self.parse() raises, or the operation runs on
\* the parsed contents and leaves r
Call(op, arg, p, r) ==
    /\ nops < MaxOps
    /\ nops' = nops + 1
    /\ text' = text
    /\ IF p.err # NoError
       THEN /\ UNCHANGED <<parsed, contents>>
            /\ last' = [op |-> op, arg |-> arg, before |-> <<>>, ret |-> <<>>,
                        err |-> p.err]
       ELSE /\ parsed' = TRUE
            /\ contents' = r.contents
            /\ last' = [op |-> op, arg |-> arg, before |-> p.entries, ret |-> r.ret,
                        err |-> r.err]

(* --------------------- ResolvConf: the mutation runs ------------------- *)

\* every sequence of at most n elements of S
SeqsUpTo(S, n) == UNION {[1..k -> S] : k \in 0..n}

\* the lines, each ended by a newline
RECURSIVE unlines(_)
unlines(lines) == IF lines = <<>> THEN <<>>
                  ELSE Head(lines) \o <<"\n">> \o unlines(Tail(lines))

NameserverLines == {<<"nameserver", " ", "a">>,
                    <<"nameserver", " ", "b", "#", "c">>,
                    <<"nameserver", "\t", "c">>}

SearchLines == {<<"search", " ", "a", " ", "b", " ", "c", " ", "d", " ", "e">>,
                <<"search", " ", "f">>,
                <<"search", " ", "X">>}

\* a blank line, a comment line, a domain line with a comment
BlankLine == <<>>
CommentLine == <<"#", " ", "c">>
DomainLine == <<"domain", " ", "d", " ", ";", "c">>

\* the texts of nameserver, blank and comment lines, and the texts of search
\* and domain lines
ResolvTexts ==
    {unlines(ls) :
        ls \in SeqsUpTo(NameserverLines \cup {BlankLine, CommentLine}, MaxLines)
                  \cup SeqsUpTo(SearchLines \cup {DomainLine}, MaxLines)}

NameserverArgs == {<<"a">>, <<"e">>}

SearchDomainArgs == {<<"a">>, <<"g">>, <<"Z">>, <<"g", " ", "h">>}

DomainArgs == {<<"d">>}

NoCall == [op |-> "none", arg |-> <<>>, before |-> <<>>, ret |-> <<>>, err |-> NoError]

\* ResolvConf(text): nothing parsed yet
InitResolv == /\ text \in ResolvTexts
              /\ parsed = FALSE
              /\ contents = <<>>
              /\ last = NoCall
              /\ nops = 0

AddNameserver == \E ns \in NameserverArgs :
    Call("add_nameserver", ns, Resolv_parsed, add_nameserver(Resolv_parsed.entries, ns))

AddSearchDomain == \E sd \in SearchDomainArgs :
    Call("add_search_domain", sd, Resolv_parsed,
         add_search_domain(Resolv_parsed.entries, sd))

SetLocalDomain == \E domain \in DomainArgs :
    Call("set_local_domain", domain, Resolv_parsed,
         set_local_domain(Resolv_parsed.entries, domain))

NextResolv == AddNameserver \/ AddSearchDomain \/ SetLocalDomain

SpecResolv == InitResolv /\ [][NextResolv]_vars

(* ------------------- ResolvConf: claims on mutations ------------------- *)

NoDuplicates(xs) == \A i, j \in 1..Len(xs) : i # j => xs[i] # xs[j]

\* xs is ys with some elements left out
RECURSIVE IsSubsequence(_, _)
IsSubsequence(xs, ys) ==
    IF xs = <<>> THEN TRUE
    ELSE IF ys = <<>> THEN FALSE
    ELSE IF Head(xs) = Head(ys) THEN IsSubsequence(Tail(xs), Tail(ys))
    ELSE IsSubsequence(xs, Tail(ys))

IsNameserverLine(item) == item[1] = "option" /\ item[2][1] = <<"nameserver">>

IsSearchLine(item) == item[1] = "option" /\ item[2][1] = <<"search">>

\* the line records of c that are not nameserver lines
OtherLines(c) == SelectSeq(c, LAMBDA item : ~IsNameserverLine(item))

Returned(op) == last.op = op /\ last.err = NoError

LimitRaised == last.err.kind = "ValueError"

\* C1: on a document with fewer than 3 nameserver values, add_nameserver of a
\* value equal to none of them succeeds, returns the previous values
\* deduplicated in order with ns last, and nameservers then returns that list.
C1_AddNewNameserver ==
    (/\ last.op = "add_nameserver"
     /\ Len(nameservers(last.before)) < MaxNameservers
     /\ last.arg \notin Range(nameservers(last.before)))
    => /\ last.err = NoError
       /\ last.ret = Append(uniq_list(nameservers(last.before)), last.arg)
       /\ nameservers(contents) = last.ret
       /\ last.arg \in Range(nameservers(contents))

\* C2: adding a value that is already present raises nothing and leaves the
\* line records as they were; add_nameserver returns the current list.
C2_AddPresentIsNoOp ==
    /\ (last.op = "add_nameserver" /\ last.arg \in Range(nameservers(last.before)))
       => /\ last.err = NoError
          /\ last.ret = nameservers(last.before)
          /\ contents = last.before
    /\ (last.op = "add_search_domain" /\ last.arg \in Range(search_domains(last.before)))
       => /\ last.err = NoError
          /\ contents = last.before

\* C3: after an add that returns without error the list it adds to holds no
\* duplicate values.
C3_NoDuplicatesAfterAdd ==
    /\ Returned("add_nameserver") => NoDuplicates(nameservers(contents))
    /\ Returned("add_search_domain") => NoDuplicates(search_domains(contents))

\* C4: an add that fails with a limit error leaves the line records as they
\* were; a fourth distinct nameserver raises and the three stay, in order; a
\* new search domain whose joined list would pass 256 characters raises and
\* search_domains stays as it was.
C4_LimitErrorLeavesDocument ==
    /\ (last.op \in {"add_nameserver", "add_search_domain"} /\ LimitRaised)
       => contents = last.before
    /\ (/\ last.op = "add_nameserver"
        /\ Len(nameservers(last.before)) = MaxNameservers
        /\ NoDuplicates(nameservers(last.before))
        /\ last.arg \notin Range(nameservers(last.before)))
       => /\ LimitRaised
          /\ nameservers(contents) = nameservers(last.before)
    /\ (/\ last.op = "add_search_domain"
        /\ last.arg \notin Range(search_domains(last.before))
        /\ len(join(<<" ">>, uniq_list(Append(search_domains(last.before), last.arg))))
              > MaxSearchChars)
       => /\ LimitRaised
          /\ search_domains(contents) = search_domains(last.before)

WithinBounds(c) ==
    /\ Len(nameservers(c)) <= MaxNameservers
    /\ Len(search_domains(c)) <= MaxSearchDomains
    /\ len(join(<<" ">>, search_domains(c))) <= MaxSearchChars

\* C5: a document that starts within the bounds (3 nameservers, 6 search
\* domains, 256 characters of joined search list) is within them after every
\* sequence of calls.
C5_BoundsKept ==
    (parsed /\ WithinBounds(Resolv_parse(text).entries)) => WithinBounds(contents)

\* C8, as claimed: a successful add_nameserver of a new value keeps every line
\* record that existed before, in order and with its comment, and adds one.
C8_AddKeepsEveryLine ==
    (Returned("add_nameserver") /\ last.arg \notin Range(nameservers(last.before)))
    => /\ IsSubsequence(last.before, contents)
       /\ Len(contents) = Len(last.before) + 1

\* C8, amended: a successful add_nameserver of a new value keeps every line
\* record that is not a nameserver line, in order and with its comment; when it
\* changes the document the nameserver lines are all made anew at the end, one
\* per returned value, without comments.
C8_AddKeepsOtherLines ==
    (Returned("add_nameserver") /\ last.arg \notin Range(nameservers(last.before)))
    => /\ OtherLines(contents) = OtherLines(last.before)
       /\ Resolv_str(OtherLines(contents)) = Resolv_str(OtherLines(last.before))
       /\ contents # last.before
          => /\ contents = OtherLines(last.before)
                  \o [i \in 1..Len(last.ret) |->
                        <<"option", <<<<"nameserver">>, last.ret[i], <<>>>>>>]
             /\ Range(last.ret) = Range(nameservers(last.before)) \cup {last.arg}

\* C8 witness: the add rewrote a document that held a commented nameserver
\* line followed by a line of another kind.
C8_Witness ==
    /\ Returned("add_nameserver")
    /\ last.arg \notin Range(nameservers(last.before))
    /\ contents # last.before
    /\ \E i, j \in 1..Len(last.before) :
          /\ i < j
          /\ IsNameserverLine(last.before[i])
          /\ last.before[i][2][3] # <<>>
          /\ ~IsNameserverLine(last.before[j])

\* C10: a successful add_search_domain of a new domain leaves exactly one
\* search line, the last record, whose value is the previous domains and the
\* new one joined by spaces, without comment; it returns the previous list.
C10_AddSearchDomainResult ==
    (Returned("add_search_domain") /\ last.arg \notin Range(search_domains(last.before)))
    => /\ Len(SelectSeq(contents, IsSearchLine)) = 1
       /\ contents # <<>>
       /\ IsSearchLine(contents[Len(contents)])
       /\ contents[Len(contents)][2][2]
             = join(<<" ">>, Append(search_domains(last.before), last.arg))
       /\ contents[Len(contents)][2][3] = <<>>
       /\ last.ret = search_domains(last.before)

(* ---------------------- ResolvConf: the parser runs --------------------- *)

ParseAlphabet == {"nameserver", "foo", " ", "#", "\n"}

\* ResolvConf(text), text any string over the alphabet
InitParse == /\ text \in SeqsUpTo(ParseAlphabet, MaxTextLen)
             /\ parsed = FALSE
             /\ contents = <<>>
             /\ last = NoCall
             /\ nops = 0

\* the nameservers property
Nameservers ==
    Call("nameservers", <<>>, Resolv_parsed,
         [contents |-> Resolv_parsed.entries,
          ret |-> nameservers(Resolv_parsed.entries), err |-> NoError])

\* the search_domains property
SearchDomains ==
    Call("search_domains", <<>>, Resolv_parsed,
         [contents |-> Resolv_parsed.entries,
          ret |-> search_domains(Resolv_parsed.entries), err |-> NoError])

NextParse == Nameservers \/ SearchDomains

SpecParse == InitParse /\ [][NextParse]_vars

\* the part of a line before its comment
Content(line) == chop_comment(line, <<";", "#">>)[1]

\* a line with no keyword and value in it
Malformed(line) == Len(split(Content(line))) < 2

\* a line whose keyword is none of the five directives
Unexpected(line) == Len(split(Content(line))) >= 2 /\ split(Content(line))[1] \notin Directives

\* a line that is neither blank nor comment-only and is malformed or unexpected
BadLine(line) == /\ strip(line) # <<>>
                 /\ strip(Content(line)) # <<>>
                 /\ Malformed(line) \/ Unexpected(line)

BadLineNumbers == {k \in 1..Len(splitlines(text)) : BadLine(splitlines(text)[k])}

FirstBadLine == CHOOSE k \in BadLineNumbers : \A n \in BadLineNumbers : k <= n

RECURSIVE Hosts_parse_lines(_)
Hosts_parse_lines(lines) ==
    IF lines = <<>> THEN <<>>
    ELSE LET line == Head(lines)
             head == chop_comment(strip(line), <<"#">>)[1]
             tail == chop_comment(strip(line), <<"#">>)[2]
         IN (IF Len(strip(line)) = 0 THEN <<<<"blank", <<line>>>>>>
             ELSE IF Len(head) = 0 THEN <<<<"all_comment", <<line>>>>>>
             ELSE <<<<"option", <<split(head), tail>>>>>>)
            \o Hosts_parse_lines(Tail(lines))

Hosts_parse(s) == Hosts_parse_lines(splitlines(s))

\* HostsConf.get_entry(ip), on the parsed contents c
RECURSIVE get_entry(_, _)
get_entry(c, ip) ==
    IF c = <<>> THEN <<>>
    ELSE IF /\ Head(c)[1] = "option"
            /\ Len(Head(c)[2][1]) # 0
            /\ Head(c)[2][1][1] = ip
    THEN <<Tail(Head(c)[2][1])>> \o get_entry(Tail(c), ip)
    ELSE get_entry(Tail(c), ip)

\* a slip of del_entries: the lines that are no options are not kept
del_entries_options_only(c, ip) ==
    SelectSeq(c, LAMBDA item : /\ item[1] = "option"
                               /\ Len(item[2][1]) # 0
                               /\ item[2][1][1] # ip)

\* HostsConf.del_entries(ip), on the parsed contents c: the new contents
RECURSIVE del_entries(_, _)
del_entries(c, ip) ==
    IF c = <<>> THEN <<>>
    ELSE IF Head(c)[1] # "option" THEN <<Head(c)>> \o del_entries(Tail(c), ip)
    ELSE IF Len(Head(c)[2][1]) # 0 /\ Head(c)[2][1][1] = ip THEN del_entries(Tail(c), ip)
    ELSE IF Len(Head(c)[2][1]) # 0 THEN <<Head(c)>> \o del_entries(Tail(c), ip)
    ELSE del_entries(Tail(c), ip)

\* HostsConf.add_entry(ip, canonical_hostname, *aliases): the new contents
add_entry(c, ip, canonical_hostname, aliases) ==
    Append(c, <<"option", <<<<ip, canonical_hostname>> \o aliases, <<>>>>>>)

\* HostsConf.__str__, on the parsed contents c: a blank line is written as the
\* format string itself, "%s\n", which is given no argument
RECURSIVE Hosts_str(_)
Hosts_str(c) ==
    IF c = <<>> THEN <<>>
    ELSE LET line_type == Head(c)[1]
             components == Head(c)[2]
         IN (IF line_type = "blank" THEN <<"%s", "\n">>
             ELSE IF line_type = "all_comment" THEN components[1] \o <<"\n">>
             ELSE join(<<"\t">>, components[1]) \o components[2] \o <<"\n">>)
            \o Hosts_str(Tail(c))

\* HostsConf.parse(): parses self._text unless self._contents is set
Hosts_parsed == IF parsed THEN [err |-> NoError, entries |-> contents]
                ELSE [err |-> NoError, entries |-> Hosts_parse(text)]

HostsLines == {<<>>,
               <<" ">>,
               <<"#", "c">>,
               <<"ip1", "\t", "h1">>,
               <<"ip2", "\t", "h2", "#", "c">>,
               <<"ip1", " ", "h2">>}

HostsTexts == {unlines(ls) : ls \in SeqsUpTo(HostsLines, MaxHostsLines)}

AllIps == {<<"ip1">>, <<"ip2">>, <<"ip3">>}

IpArgs == AllIps

\* HostsConf(text): nothing parsed yet
InitHosts == /\ text \in HostsTexts
             /\ parsed = FALSE
             /\ contents = <<>>
             /\ last = NoCall
             /\ nops = 0

GetEntry == \E ip \in IpArgs :
    Call("get_entry", ip, Hosts_parsed,
         [contents |-> Hosts_parsed.entries,
          ret |-> get_entry(Hosts_parsed.entries, ip), err |-> NoError])

DelEntries == \E ip \in IpArgs :
    Call("del_entries", ip, Hosts_parsed,
         [contents |-> del_entries(Hosts_parsed.entries, ip),
          ret |-> <<>>, err |-> NoError])

AddEntry ==
    Call("add_entry", <<"ip2">>, Hosts_parsed,
         [contents |-> add_entry(Hosts_parsed.entries, <<"ip2">>, <<"h1">>, <<>>),
          ret |-> <<>>, err |-> NoError])

Render ==
    Call("str", <<>>, Hosts_parsed,
         [contents |-> Hosts_parsed.entries,
          ret |-> Hosts_str(Hosts_parsed.entries), err |-> NoError])

NextHosts == GetEntry \/ DelEntries \/ AddEntry \/ Render

SpecHosts == InitHosts /\ [][NextHosts]_vars

\* the part of a hosts line before its comment
HostsContent(line) == chop_comment(line, <<"#">>)[1]

\* before its comment, a line holds no blank but single tabs between fields
TabSeparated(line) ==
    \A i \in 1..Len(HostsContent(line)) :
        line[i] \in Whitespace
        => /\ line[i] = "\t"
           /\ i > 1 /\ line[i - 1] \notin Whitespace
           /\ i < Len(line) /\ line[i + 1] \notin Whitespace \cup {"#"}

\* a newline-terminated text of blank lines, comment lines and option lines
\* that are tab-separated without leading or trailing whitespace
NormalizedHosts(s) ==
    /\ s = <<>> \/ s[Len(s)] = "\n"
    /\ \A k \in 1..Len(splitlines(s)) :
          \/ strip(splitlines(s)[k]) = <<>>
          \/ strip(HostsContent(splitlines(s)[k])) = <<>>
          \/ TabSeparated(splitlines(s)[k])

\* C7: rendering a freshly parsed, normalized hosts text gives the text back.
C7_HostsRoundTrip ==
    (last.op = "str" /\ nops = 1 /\ NormalizedHosts(text)) => last.ret = text

IsHostsEntry(item, ip) ==
    item[1] = "option" /\ Len(item[2][1]) # 0 /\ item[2][1][1] = ip

\* C9: del_entries(ip) leaves exactly the line records that are not option
\* lines for ip, unchanged and in order: blank and comment lines stay,
\* get_entry(ip) is then empty and get_entry of any other IP is as before.
C9_DelEntriesFrame ==
    last.op = "del_entries"
    => /\ contents = SelectSeq(last.before, LAMBDA item : ~IsHostsEntry(item, last.arg))
       /\ SelectSeq(contents, LAMBDA item : item[1] # "option")
             = SelectSeq(last.before, LAMBDA item : item[1] # "option")
       /\ get_entry(contents, last.arg) = <<>>
       /\ \A other \in AllIps \ {last.arg} :
             get_entry(contents, other) = get_entry(last.before, other)

\* C9 witness: del_entries removed an entry from a document that also holds an
\* entry for another IP and a blank or comment line.
C9_Witness ==
    /\ last.op = "del_entries"
    /\ Len(contents) < Len(last.before)
    /\ \E i \in 1..Len(contents) : contents[i][1] = "option"
    /\ \E i \in 1..Len(contents) : contents[i][1] # "option"

====
